---- MODULE Spec2Model ----
(***************************************************************************)
(* PostalHub tracking pipeline: the intake routes (routes/tracking.js,     *)
(* routes/external.js), the carrier registry (carrier-factory.js), the     *)
(* USPS adapter (services/carrier/usps.js, base-carrier.js) and the        *)
(* background worker processTrackingAsync.                                 *)
(*                                                                         *)
(* A route handler is an async function: other handlers and workers run    *)
(* while it awaits the database.  The assign-carrier handler is two steps, *)
(* its reads (ExternalPutCarrier) and its write (ExternalPutCarrierWrite); *)
(* the handler waiting in between is an element of calls.  The other       *)
(* handlers are one step each.  A worker is an element of workers and      *)
(* advances one await at a time.                                           *)
(***************************************************************************)
EXTENDS Integers, Sequences, FiniteSets, Bags, TLC

VARIABLES env, carriers, requests, shipments, nextId, calls, workers,
          adapterCalls, output

vars == <<env, carriers, requests, shipments, nextId, calls, workers,
          adapterCalls, output>>

-----------------------------------------------------------------------------
(* Bounds *)

MaxId == 2
MaxCalls == 2

Ids == 1..MaxId

-----------------------------------------------------------------------------
(* Inputs *)

Absent == "absent"
Undefined == "undefined"
NoCarrier == "null"
NoTrackingNumber == <<>>

\* 13 characters: 2 letters, 9 digits, 2 letters
TnUspsIntl == <<"E","A","1","2","3","4","5","6","7","8","9","U","S">>
\* 11 digits
TnDigits11 == <<"1","2","3","4","5","6","7","8","9","0","1">>
\* 3 characters, below the routes' minimum length
TnShort == <<"1","2","3">>

\* 51 characters
TnLong == [i \in 1..51 |-> "1"]

\* 10 characters no carrier pattern matches
TnUnknown == <<"n","o","t","a","n","u","m","b","e","r">>

\* values the clients send
CarrierInputs == {"USPS", "UPS", "FedEx", "Amazon"}
BrandInputs == {Absent, "usps", "UPS", "FedEx", "other"}

\* A client population: the routes it calls, the principals that call them,
\* the custom userId values and callback URLs of its external submits, the
\* tracking numbers it submits and the ones it sends to PUT /update, and how
\* many of its assign-carrier calls may overlap.
Client(routes, users, userIds, callbackUrls, numbers, updateNumbers, overlap) ==
  [routes |-> routes, users |-> users, userIds |-> userIds,
   callbackUrls |-> callbackUrls, numbers |-> numbers,
   updateNumbers |-> updateNumbers, overlap |-> overlap]

\* the web frontend: the dashboard routes of routes/tracking.js
WebClient ==
  Client({"track", "add", "update", "delete"}, {"u1", "u2"}, {Absent},
         {FALSE}, {TnUspsIntl, TnShort},
         {NoTrackingNumber, TnDigits11, TnShort}, 1)

\* external apps: the routes of routes/external.js
ExternalClient ==
  Client({"external", "assign"}, {"u1", "u2"}, {Absent, "u2"},
         {TRUE, FALSE}, {TnUspsIntl, TnShort}, {NoTrackingNumber}, 1)

\* an external app whose assign-carrier calls overlap
OverlappingClient ==
  Client({"external", "assign"}, {"u1"}, {Absent}, {TRUE}, {TnUspsIntl},
         {NoTrackingNumber}, MaxCalls)

\* a user of both: requests submitted through the external API and managed
\* in the dashboard
MixedClient ==
  Client({"external", "assign", "add", "update", "delete"}, {"u1"}, {Absent},
         {FALSE}, {TnUspsIntl}, {NoTrackingNumber, TnDigits11}, 1)

\* dashboard users who leave the carrier to the classifier
StrictClient ==
  Client({"add", "delete"}, {"u1"}, {Absent}, {FALSE},
         {TnUnknown, TnDigits11, TnLong}, {NoTrackingNumber}, 1)

\* callers that reach the server before the carriers table is seeded
FreshClient ==
  Client({"track", "external", "delete"}, {"u1"}, {Absent}, {FALSE},
         {TnUspsIntl}, {NoTrackingNumber}, 1)

\* two principals who read each other's request ids
ReadingClient ==
  Client({"track", "external", "read", "url", "status"}, {"u1", "u2"},
         {Absent}, {FALSE}, {TnUspsIntl}, {NoTrackingNumber}, 1)

LiveClient ==
  Client({"add", "external", "assign"}, {"u1"}, {Absent}, {TRUE},
         {TnUspsIntl}, {NoTrackingNumber}, MaxCalls)

DeletingClient ==
  Client({"external", "assign", "delete"}, {"u1"}, {Absent}, {TRUE},
         {TnUspsIntl}, {NoTrackingNumber}, 1)

LiveClients == {LiveClient, DeletingClient}

Clients ==
  {WebClient, ExternalClient, OverlappingClient, MixedClient, StrictClient,
   ReadingClient}

-----------------------------------------------------------------------------
(* Strings *)

Digit == {"0","1","2","3","4","5","6","7","8","9"}
UpperLetter == {"A","B","C","D","E","F","G","H","I","J","K","L","M",
                "N","O","P","Q","R","S","T","U","V","W","X","Y","Z"}
Whitespace == {" ", "\t"}

AllIn(s, from, to, S) == \A k \in from..to : s[k] \in S

RECURSIVE StripSpaces(_)
StripSpaces(s) ==
  IF s = <<>> THEN <<>>
  ELSE IF Head(s) \in Whitespace THEN StripSpaces(Tail(s))
       ELSE <<Head(s)>> \o StripSpaces(Tail(s))

LowerLetter ==
  {"a","b","c","d","e","f","g","h","i","j","k","l","m",
   "n","o","p","q","r","s","t","u","v","w","x","y","z"}

\* the upper-case letter of each lower-case letter
LowerToUpper ==
  "a" :> "A" @@ "b" :> "B" @@ "c" :> "C" @@ "d" :> "D" @@ "e" :> "E" @@
  "f" :> "F" @@ "g" :> "G" @@ "h" :> "H" @@ "i" :> "I" @@ "j" :> "J" @@
  "k" :> "K" @@ "l" :> "L" @@ "m" :> "M" @@ "n" :> "N" @@ "o" :> "O" @@
  "p" :> "P" @@ "q" :> "Q" @@ "r" :> "R" @@ "s" :> "S" @@ "t" :> "T" @@
  "u" :> "U" @@ "v" :> "V" @@ "w" :> "W" @@ "x" :> "X" @@ "y" :> "Y" @@
  "z" :> "Z"

\* String.prototype.toUpperCase on one character
UpperChar(ch) == IF ch \in LowerLetter THEN LowerToUpper[ch] ELSE ch

toUpperCase(name) ==
  CASE name = "FedEx" -> "FEDEX"
    [] name = "Amazon" -> "AMAZON"
    [] name = "usps" -> "USPS"
    [] name = "other" -> "OTHER"
    [] OTHER -> name

toLowerCase(name) ==
  CASE name = "USPS" -> "usps"
    [] name = "UPS" -> "ups"
    [] name = "FedEx" -> "fedex"
    [] name = "FEDEX" -> "fedex"
    [] name = "DHL" -> "dhl"
    [] name = "Amazon" -> "amazon"
    [] name = "AMAZON" -> "amazon"
    [] name = "OTHER" -> "other"
    [] OTHER -> name

-----------------------------------------------------------------------------
(* Carrier pattern classifier *)

\* UPS patterns without the run of 10 or more digits
MatchesUPSPrefixed(s) ==
  \/ Len(s) = 18 /\ s[1] = "1" /\ s[2] = "Z"
       /\ AllIn(s, 3, 18, Digit \cup UpperLetter)
  \/ Len(s) >= 4 /\ s[1] = "1" /\ s[2] = "Z" /\ s[3] \in Whitespace
       /\ AllIn(s, 4, Len(s), Digit \cup UpperLetter \cup Whitespace)

MatchesUPS(s) ==
  \/ Len(s) = 18 /\ s[1] = "1" /\ s[2] = "Z"
       /\ AllIn(s, 3, 18, Digit \cup UpperLetter)
  \/ Len(s) >= 4 /\ s[1] = "1" /\ s[2] = "Z" /\ s[3] \in Whitespace
       /\ AllIn(s, 4, Len(s), Digit \cup UpperLetter \cup Whitespace)
  \/ Len(s) >= 10 /\ AllIn(s, 1, Len(s), Digit)

MatchesFedEx(s) ==
  \/ Len(s) = 12 /\ AllIn(s, 1, 12, Digit)
  \/ Len(s) = 14 /\ AllIn(s, 1, 14, Digit)

MatchesUSPS(s) ==
  \/ Len(s) = 13 /\ AllIn(s, 1, 2, UpperLetter) /\ AllIn(s, 3, 11, Digit)
       /\ AllIn(s, 12, 13, UpperLetter)
  \/ Len(s) = 19 /\ AllIn(s, 1, 4, Digit) /\ s[5] \in Whitespace
       /\ AllIn(s, 6, 9, Digit) /\ s[10] \in Whitespace
       /\ AllIn(s, 11, 14, Digit) /\ s[15] \in Whitespace
       /\ AllIn(s, 16, 19, Digit)

MatchesDHL(s) ==
  Len(s) \in {10, 11} /\ AllIn(s, 1, Len(s), Digit)

MatchesAmazon(s) ==
  Len(s) = 13 /\ s[1] = "T" /\ s[2] = "B" /\ s[3] = "A"
    /\ AllIn(s, 4, 13, Digit)

\* a table that lists FedEx before UPS
detectCarrierFedExFirst(s) ==
  IF MatchesFedEx(s) THEN "FedEx"
  ELSE IF MatchesUPS(s) THEN "UPS"
  ELSE IF MatchesUSPS(s) THEN "USPS"
  ELSE IF MatchesDHL(s) THEN "DHL"
  ELSE IF MatchesAmazon(s) THEN "Amazon"
  ELSE NoCarrier

\* null (no pattern matched) is NoCarrier
detectCarrierFromTrackingNumber(s) ==
  IF MatchesUPS(s) THEN "UPS"
  ELSE IF MatchesFedEx(s) THEN "FedEx"
  ELSE IF MatchesUSPS(s) THEN "USPS"
  ELSE IF MatchesDHL(s) THEN "DHL"
  ELSE IF MatchesAmazon(s) THEN "Amazon"
  ELSE NoCarrier

\* Strings handed to the classifier: runs of one digit of every length up to
\* MaxDigits, and strings on and around the edges of the letter patterns.
MaxDigits == 23

Rep(n, c) == [i \in 1..n |-> c]

Sp == <<" ">>
Tab == <<"\t">>

TnUpsExample ==
  <<"1","Z","1","2","3","4","5","6","7","8","9","0","1","2","3","4","A","B">>

\* the printed form of a UPS number: 1Z, then groups separated by spaces
TnUpsSpaced ==
  <<"1","Z">> \o Sp \o Rep(3, "9") \o Sp \o <<"A","A","1">>

\* a 22-digit USPS domestic number
TnUspsDomestic ==
  <<"9","4","0","0","1","1","1","2","0","6","2","1","3","8","5","9","4","9",
    "6","2","4","7">>

ClassifierInputs ==
  { Rep(n, d) : n \in 0..MaxDigits, d \in {"1", "9"} }
    \cup
  { TnUpsExample, TnUnknown, TnUspsIntl, TnUspsDomestic,
    <<"1","Z">> \o Rep(16, "A"),
    <<"1","Z">> \o Rep(15, "7"),
    <<"1","Z">> \o Rep(17, "7"),
    <<"1","z">> \o Rep(16, "7"),
    <<"1","Z">> \o Rep(15, "7") \o <<"a">>,
    TnUpsSpaced,
    <<"1","Z">> \o Tab \o Rep(3, "9"),
    <<"1","Z">> \o Sp,
    <<"1","Z">> \o Sp \o <<"a">>,
    <<"T","B","A">> \o Rep(10, "1"),
    <<"T","B","A">> \o Rep(9, "1"),
    <<"T","B","A">> \o Rep(11, "1"),
    <<"t","b","a">> \o Rep(10, "1"),
    <<"A","B">> \o Rep(9, "1") \o <<"C","D">>,
    <<"a","b">> \o Rep(9, "1") \o <<"c","d">>,
    <<"A","B">> \o Rep(8, "1") \o <<"C","D">>,
    Rep(4, "1") \o Sp \o Rep(4, "2") \o Sp \o Rep(4, "3") \o Sp \o Rep(4, "4"),
    Rep(4, "1") \o Tab \o Rep(4, "2") \o Tab \o Rep(4, "3") \o Tab \o Rep(4, "4"),
    Rep(4, "1") \o Sp \o Sp \o Rep(4, "2") \o Sp \o Rep(4, "3") \o Sp \o Rep(4, "4"),
    Rep(4, "1") \o Sp \o Rep(4, "2") \o Sp \o Rep(4, "3"),
    Rep(12, "1") \o Sp,
    Sp \o Rep(14, "1"),
    Rep(11, "1") \o <<"A">>,
    Rep(5, "1") \o <<"-">> \o Rep(5, "1") }

-----------------------------------------------------------------------------
(* Carriers table and carrier registry *)

\* rows of the carriers table once the database is seeded; a row's id is
\* identified with its name
CarrierTable == {"USPS", "UPS", "FedEx", "DHL", "Amazon"}

\* the carriers table before the seed has run
UnseededTable == {}

\* prisma.carrier.findUnique on the uppercased name; undefined without a row
getCarrierId(carrierName) ==
  IF toUpperCase(carrierName) \in carriers.table
  THEN toUpperCase(carrierName) ELSE Undefined

\* CarrierFactory.carriers when USPS_USER_ID is set / is not set
RegistryWith(adapter) == [k \in {"USPS", "usps"} |-> adapter]
EmptyRegistry == [k \in {} |-> "USPSCarrier"]

\* the adapter instance registered under the name, or "none"
getCarrier(carrierName) ==
  IF carrierName \in {Absent, NoCarrier} THEN "none"
  ELSE IF toUpperCase(carrierName) \in DOMAIN carriers.registry
       THEN carriers.registry[toUpperCase(carrierName)]
  ELSE IF toLowerCase(carrierName) \in DOMAIN carriers.registry
       THEN carriers.registry[toLowerCase(carrierName)]
  ELSE "none"

\* isActive is never cleared and the api key is the non-empty USPS_USER_ID
isServiceActive(adapter) == adapter # "none"

\* an availability test that passes for every carrier
isCarrierAvailableAlways(carrierName) == TRUE

isCarrierAvailable(carrierName) ==
  getCarrier(carrierName) # "none" /\ isServiceActive(getCarrier(carrierName))

-----------------------------------------------------------------------------
(* Carrier adapter *)

BaseValidateTrackingNumber(tn) == Len(StripSpaces(tn)) >= 8

validateTrackingNumber(tn) ==
  /\ BaseValidateTrackingNumber(tn)
  /\ LET c == StripSpaces(tn) IN
       \/ Len(c) \in {20, 22, 13, 10}
            /\ \A k \in 1..Len(c) : UpperChar(c[k]) \in Digit
       \/ Len(c) \in {13, 12}
            /\ \A k \in 1..Len(c) : UpperChar(c[k]) \in Digit \cup UpperLetter

\* what the carrier's answer parses to: status and location found, or not
ParsedResponses(tn) ==
  { [trackingNumber |-> StripSpaces(tn), currentStatus |-> "Delivered",
     currentLocation |-> "New York, NY"],
    [trackingNumber |-> StripSpaces(tn), currentStatus |-> "",
     currentLocation |-> ""] }

\* failures of the carrier call
AdapterErrors == {"network", "timeout", "carrier_error", "parse"}

standardizeData(name, rawData) ==
  [success |-> Undefined,
   trackingNumber |-> rawData.trackingNumber,
   carrier |-> name,
   currentStatus |-> IF rawData.currentStatus = "" THEN "Unknown"
                     ELSE rawData.currentStatus,
   currentLocation |-> IF rawData.currentLocation = "" THEN "Unknown"
                       ELSE rawData.currentLocation]

handleError(name, error) ==
  [success |-> "false", trackingNumber |-> <<>>, carrier |-> name,
   currentStatus |-> "", currentLocation |-> ""]

\* the result of the stub adapter of the end-to-end scenario
StubData(tn) ==
  [success |-> "true", trackingNumber |-> tn, carrier |-> "USPS",
   currentStatus |-> "Delivered", currentLocation |-> "New York, NY"]

\* the objects trackPackage can resolve to
trackPackage(adapter, tn) ==
  IF adapter = "StubCarrier"
  THEN {StubData(tn), handleError("USPS", "stub")}
  ELSE IF ~isServiceActive(adapter) \/ ~validateTrackingNumber(tn)
       THEN {handleError("USPS", "rejected")}
       ELSE {standardizeData("USPS", r) : r \in ParsedResponses(tn)}
              \cup {handleError("USPS", e) : e \in AdapterErrors}

\* JavaScript truthiness of trackingData.success
Truthy(v) == v = "true"

NoData == handleError("", "")

-----------------------------------------------------------------------------
(* State *)

Add(bag, e) == bag (+) SetToBag({e})
Remove(bag, e) == bag (-) SetToBag({e})

Request(u, tn, cid, st, cb) ==
  [userId |-> u, trackingNumber |-> tn, carrierId |-> cid, status |-> st,
   callbackUrl |-> cb]

Worker(id, tn, name, cb) ==
  [id |-> id, trackingNumber |-> tn, carrierName |-> name,
   callbackUrl |-> cb, pc |-> "claim", adapterOk |-> FALSE,
   data |-> NoData]

Call(op, u, id, tn, name, cid, cb, start) ==
  [op |-> op, userId |-> u, id |-> id, trackingNumber |-> tn,
   carrierName |-> name, carrierId |-> cid, callbackUrl |-> cb,
   start |-> start]

\* what the last step sent out: the HTTP response of a route (kind is the
\* route; status is the body's status, or its error for a rejection) or a
\* callback POST
Output(kind, code, id, st) ==
  [kind |-> kind, code |-> code, id |-> id, status |-> st]

NoOutput == Output("none", 0, 0, "")

IsResponse(o) == o.kind \notin {"none", "callback"}

InitWith(client, registry, table) ==
  /\ env = client
  /\ carriers = [registry |-> registry, table |-> table]
  /\ requests = [i \in {} |-> Request("u1", <<>>, NoCarrier, "pending", FALSE)]
  /\ shipments = [i \in {} |-> NoData]
  /\ nextId = 1
  /\ calls = EmptyBag
  /\ workers = EmptyBag
  /\ adapterCalls = [i \in Ids |-> 0]
  /\ output = NoOutput

\* the server is started with or without USPS_USER_ID on a seeded database,
\* or (FreshClient) with it on a database whose seed has not run yet
Init ==
  \/ \E client \in Clients,
        registry \in {EmptyRegistry, RegistryWith("USPSCarrier")} :
       InitWith(client, registry, CarrierTable)
  \/ InitWith(FreshClient, RegistryWith("USPSCarrier"), UnseededTable)

InitStub == \E client \in Clients :
              InitWith(client, RegistryWith("StubCarrier"), CarrierTable)

Respond(op, code, id, st) == output' = Output(op, code, id, st)

\* a duplicate check that looks at requests still in progress only
findByIdentityInProgress(u, tn, cid) ==
  { i \in DOMAIN requests :
      /\ requests[i].userId = u
      /\ requests[i].trackingNumber = tn
      /\ cid \in {Undefined, NoCarrier} \/ requests[i].carrierId = cid
      /\ requests[i].status \in {"pending", "processing"} }

\* prisma.trackingRequest.findFirst on (userId, trackingNumber[, carrierId]);
\* an undefined or null carrierId leaves the carrier unfiltered
findByIdentity(u, tn, cid) ==
  { i \in DOMAIN requests :
      /\ requests[i].userId = u
      /\ requests[i].trackingNumber = tn
      /\ cid \in {Undefined, NoCarrier} \/ requests[i].carrierId = cid }

\* a lookup by id alone
findById(id, u) ==
  { i \in DOMAIN requests : i = id }

\* prisma.trackingRequest.findFirst on (id, userId)
findOwned(id, u) ==
  { i \in DOMAIN requests : i = id /\ requests[i].userId = u }

validLength(tn) == Len(tn) >= 8 /\ Len(tn) <= 50

-----------------------------------------------------------------------------
(* Intake handlers *)

TrackCarriers == {"USPS", "UPS", "FedEx", "DHL"}
AddBrands == {"USPS", "UPS", "FEDEX", "DHL", "AMAZON", "OTHER"}

Park(c) ==
  /\ BagCardinality(calls) < env.overlap
  /\ calls' = Add(calls, c)
  /\ output' = NoOutput
  /\ UNCHANGED <<requests, nextId, workers>>

\* a 409 answer that also runs the worker again for the row it found
DuplicateRestarts(op, existing) ==
  /\ \E i \in existing :
       /\ Respond(op, 409, i, requests[i].status)
       /\ workers' = Add(workers, Worker(i, requests[i].trackingNumber,
                                         requests[i].carrierId,
                                         requests[i].callbackUrl))
  /\ UNCHANGED <<requests, nextId, calls>>

\* the 409 answer: findFirst returns one of the matching rows
Duplicate(op, existing) ==
  /\ \E i \in existing : Respond(op, 409, i, requests[i].status)
  /\ UNCHANGED <<requests, nextId, calls, workers>>

Reject(op, code, error) ==
  /\ Respond(op, code, 0, error)
  /\ UNCHANGED <<requests, nextId, calls, workers>>

\* a handler that awaits processTrackingAsync before it responds: the worker
\* has run to its end when the response is sent
CreateAndRespondAwaited(c, st, reported) ==
  /\ nextId <= MaxId
  /\ requests' = requests @@
       (nextId :> Request(c.userId, c.trackingNumber,
                          IF c.carrierId = Undefined THEN NoCarrier
                          ELSE c.carrierId,
                          IF c.start THEN "failed" ELSE st, c.callbackUrl))
  /\ nextId' = nextId + 1
  /\ Respond(c.op, 201, nextId, reported)
  /\ UNCHANGED <<calls, workers>>

\* prisma.trackingRequest.create followed by the handler's synchronous tail:
\* processTrackingAsync is called, not awaited, and the response is sent.
\* An undefined carrierId is left out of the row, whose carrier is then null.
CreateAndRespond(c, st, reported) ==
  /\ nextId <= MaxId
  /\ requests' = requests @@
       (nextId :> Request(c.userId, c.trackingNumber,
                          IF c.carrierId = Undefined THEN NoCarrier
                          ELSE c.carrierId,
                          st, c.callbackUrl))
  /\ nextId' = nextId + 1
  /\ IF c.start
     THEN workers' = Add(workers, Worker(nextId, c.trackingNumber,
                                         c.carrierName, c.callbackUrl))
     ELSE UNCHANGED workers
  /\ Respond(c.op, 201, nextId, reported)
  /\ UNCHANGED calls

\* POST /api/tracking/track
PostTrack(u, tn, carrier) ==
  /\ UNCHANGED <<env, carriers, shipments, adapterCalls>>
  /\ IF ~validLength(tn) \/ carrier \notin TrackCarriers
     THEN Reject("track", 400, "validation")
     ELSE IF ~isCarrierAvailable(carrier)
     THEN Reject("track", 400, "unavailable")
     ELSE LET carrierId == getCarrierId(carrier)
              existing == findByIdentity(u, tn, carrierId)
          IN IF existing # {}
             THEN Duplicate("track", existing)
             ELSE CreateAndRespond(
                    Call("track", u, 0, tn, carrier, carrierId, FALSE, TRUE),
                    "pending", "pending")

\* a lenient detection that falls back to USPS when no pattern matches
DetectedBrandLenient(tn, brand) ==
  LET detected == IF brand \in {Absent, "OTHER"}
                  THEN detectCarrierFromTrackingNumber(tn)
                  ELSE brand
  IN IF detected = "FEDEX" THEN "FedEx"
     ELSE IF detected = "AMAZON" THEN "Amazon"
     ELSE IF detected = NoCarrier THEN "USPS"
     ELSE detected

\* the brand POST /add works with after detection and normalisation
\* (NoCarrier: nothing detected)
DetectedBrand(tn, brand) ==
  LET detected == IF brand \in {Absent, "OTHER"}
                  THEN detectCarrierFromTrackingNumber(tn)
                  ELSE brand
  IN IF detected = "FEDEX" THEN "FedEx"
     ELSE IF detected = "AMAZON" THEN "Amazon"
     ELSE detected

\* POST /api/tracking/add
PostAdd(u, tn, rawBrand) ==
  LET brand == IF rawBrand = Absent THEN Absent ELSE toUpperCase(rawBrand)
  IN
  /\ UNCHANGED <<env, carriers, shipments, adapterCalls>>
  /\ IF ~validLength(tn) \/ (brand # Absent /\ brand \notin AddBrands)
     THEN Reject("add", 400, "validation")
     ELSE LET detectedBrand == DetectedBrand(tn, brand) IN
          IF detectedBrand = NoCarrier
          THEN Reject("add", 400, "undetermined")
          ELSE LET available == isCarrierAvailable(detectedBrand)
                   carrierId == getCarrierId(detectedBrand)
                   existing == findByIdentity(u, tn, carrierId)
               IN IF carrierId = Undefined
                  THEN Reject("add", 400, "carrier_missing")
                  ELSE IF existing # {}
                  THEN Duplicate("add", existing)
                  ELSE CreateAndRespond(
                         Call("add", u, 0, tn, detectedBrand, carrierId,
                              FALSE, available),
                         "pending", "")

\* an external submit that starts the worker whether a carrier was given or
\* not
ExternalPostTrackEager(googleUser, userId, tn, carrier, callbackUrl) ==
  LET externalUserId == IF userId = Absent THEN googleUser ELSE userId
  IN
  /\ UNCHANGED <<env, carriers, shipments, adapterCalls>>
  /\ IF ~validLength(tn) \/ (carrier # Absent /\ carrier \notin TrackCarriers)
     THEN Reject("external", 400, "validation")
     ELSE IF carrier # Absent /\ ~isCarrierAvailable(carrier)
     THEN Reject("external", 400, "unavailable")
     ELSE LET found == IF carrier = Absent THEN NoCarrier
                       ELSE getCarrierId(carrier)
              carrierId == IF found = Undefined THEN NoCarrier ELSE found
              existing == findByIdentity(externalUserId, tn, carrierId)
          IN IF existing # {}
             THEN Duplicate("external", existing)
             ELSE LET c == Call("external", externalUserId, 0, tn, carrier,
                                carrierId, callbackUrl, TRUE)
                      st == IF carrierId # NoCarrier THEN "pending"
                            ELSE "awaiting_carrier"
                  IN CreateAndRespond(c, st, st)

\* POST /api/external/track
ExternalPostTrack(googleUser, userId, tn, carrier, callbackUrl) ==
  LET externalUserId == IF userId = Absent THEN googleUser ELSE userId
  IN
  /\ UNCHANGED <<env, carriers, shipments, adapterCalls>>
  /\ IF ~validLength(tn) \/ (carrier # Absent /\ carrier \notin TrackCarriers)
     THEN Reject("external", 400, "validation")
     ELSE IF carrier # Absent /\ ~isCarrierAvailable(carrier)
     THEN Reject("external", 400, "unavailable")
     ELSE LET found == IF carrier = Absent THEN NoCarrier
                       ELSE getCarrierId(carrier)
              carrierId == IF found = Undefined THEN NoCarrier ELSE found
              existing == findByIdentity(externalUserId, tn, carrierId)
          IN IF existing # {}
             THEN Duplicate("external", existing)
             ELSE LET c == Call("external", externalUserId, 0, tn, carrier,
                                carrierId, callbackUrl, carrierId # NoCarrier)
                      st == IF carrierId # NoCarrier THEN "pending"
                            ELSE "awaiting_carrier"
                  IN CreateAndRespond(c, st, st)

\* PUT /api/external/track/:trackingId/carrier, up to getCarrierId
ExternalPutCarrier(googleUser, trackingId, carrier) ==
  /\ UNCHANGED <<env, carriers, shipments, adapterCalls>>
  /\ IF carrier \notin TrackCarriers
     THEN Reject("assign", 400, "validation")
     ELSE IF findOwned(trackingId, googleUser) = {}
     THEN Reject("assign", 404, "not_found")
     ELSE IF requests[trackingId].carrierId # NoCarrier
     THEN Reject("assign", 400, "carrier_already_set")
     ELSE IF ~isCarrierAvailable(carrier)
     THEN Reject("assign", 400, "unavailable")
     ELSE Park(Call("assign", requests[trackingId].userId, trackingId,
                    requests[trackingId].trackingNumber, carrier,
                    getCarrierId(carrier), requests[trackingId].callbackUrl,
                    TRUE))

\* PUT /api/external/track/:trackingId/carrier, from the update on; the
\* update of a row that is gone throws and the handler answers 500
ExternalPutCarrierWrite(c) ==
  /\ c.op = "assign"
  /\ calls' = Remove(calls, c)
  /\ UNCHANGED <<env, carriers, shipments, nextId, adapterCalls>>
  /\ IF c.id \notin DOMAIN requests
     THEN /\ Respond("assign", 500, 0, "internal")
          /\ UNCHANGED <<requests, workers>>
     ELSE /\ requests' =
               [requests EXCEPT
                  ![c.id].carrierId = IF c.carrierId = Undefined THEN @
                                      ELSE c.carrierId,
                  ![c.id].status = "pending"]
          /\ workers' = Add(workers, Worker(c.id, c.trackingNumber,
                                            c.carrierName, c.callbackUrl))
          /\ Respond("assign", 200, c.id, "pending")

\* PUT /api/tracking/update; the handler's read only gates the write
PutUpdate(u, id, tn, brand) ==
  /\ UNCHANGED <<env, carriers, shipments, nextId, calls, workers, adapterCalls>>
  /\ IF (tn # NoTrackingNumber /\ ~validLength(tn))
        \/ (brand # Absent /\ brand \notin TrackCarriers)
     THEN Respond("update", 400, 0, "validation") /\ UNCHANGED requests
     ELSE IF findOwned(id, u) = {}
     THEN Respond("update", 404, 0, "not_found") /\ UNCHANGED requests
     ELSE IF brand # Absent /\ getCarrierId(brand) = Undefined
     THEN Respond("update", 400, 0, "invalid_brand") /\ UNCHANGED requests
     ELSE /\ requests' =
               [requests EXCEPT
                  ![id].trackingNumber = IF tn = NoTrackingNumber THEN @
                                         ELSE tn,
                  ![id].carrierId = IF brand = Absent THEN @
                                    ELSE getCarrierId(brand)]
          /\ Respond("update", 200, id, "")

\* DELETE /api/tracking/delete; the shipment row goes with the request
DeleteTracking(u, id) ==
  /\ UNCHANGED <<env, carriers, nextId, calls, workers, adapterCalls>>
  /\ IF findOwned(id, u) = {}
     THEN Respond("delete", 404, 0, "not_found") /\ UNCHANGED <<requests, shipments>>
     ELSE /\ requests' = [i \in DOMAIN requests \ {id} |-> requests[i]]
          /\ shipments' = [i \in DOMAIN shipments \ {id} |-> shipments[i]]
          /\ Respond("delete", 200, id, "")

\* GET /api/tracking/requests/:id
GetRequest(u, id) ==
  /\ UNCHANGED <<env, carriers, requests, shipments, nextId, calls, workers,
                 adapterCalls>>
  /\ IF findOwned(id, u) = {}
     THEN Respond("read", 404, 0, "not_found")
     ELSE Respond("read", 200, id, requests[id].status)

\* GET /api/tracking/:id/url; request.carrier.name of a request without a
\* carrier throws and the handler answers 500
GetUrl(u, id) ==
  /\ UNCHANGED <<env, carriers, requests, shipments, nextId, calls, workers,
                 adapterCalls>>
  /\ IF findOwned(id, u) = {}
     THEN Respond("url", 404, 0, "not_found")
     ELSE IF requests[id].carrierId = NoCarrier
     THEN Respond("url", 500, 0, "internal")
     ELSE Respond("url", 200, id, "")

\* GET /api/external/status/:trackingId
GetStatus(googleUser, trackingId) ==
  /\ UNCHANGED <<env, carriers, requests, shipments, nextId, calls, workers,
                 adapterCalls>>
  /\ IF findOwned(trackingId, googleUser) = {}
     THEN Respond("status", 404, 0, "not_found")
     ELSE Respond("status", 200, trackingId, requests[trackingId].status)

\* a call of detectCarrierFromTrackingNumber; the result is recorded as
\* the response
Classify(tn) ==
  /\ output' = Output("classify", 200, 0, detectCarrierFromTrackingNumber(tn))
  /\ UNCHANGED <<env, carriers, requests, shipments, nextId, calls, workers,
                 adapterCalls>>

-----------------------------------------------------------------------------
(* Fulfillment worker: processTrackingAsync, one await per action *)

Shipment(d) ==
  [trackingNumber |-> d.trackingNumber, carrier |-> d.carrier,
   currentStatus |-> d.currentStatus, currentLocation |-> d.currentLocation]

Advance(w, pc, ok, d) ==
  workers' = Add(Remove(workers, w),
                 [w EXCEPT !.pc = pc, !.adapterOk = ok, !.data = d])

Finish(w) == workers' = Remove(workers, w)

\* update status to 'processing', then getCarrier and the call of
\* trackPackage.  The update of a row that is gone throws, and so does the
\* update in the catch block: the worker ends there.
WorkerClaim(w) ==
  /\ w.pc = "claim"
  /\ output' = NoOutput
  /\ UNCHANGED <<env, carriers, shipments, nextId, calls>>
  /\ IF w.id \notin DOMAIN requests
     THEN /\ Finish(w)
          /\ UNCHANGED <<requests, adapterCalls>>
     ELSE /\ requests' = [requests EXCEPT ![w.id].status = "processing"]
          /\ IF getCarrier(w.carrierName) = "none"
             THEN /\ Advance(w, "fail", FALSE, NoData)
                  /\ UNCHANGED adapterCalls
             ELSE /\ Advance(w, "track", FALSE, NoData)
                  /\ adapterCalls' =
                       [adapterCalls EXCEPT ![w.id] = @ + 1]

\* a worker without its try/catch: the thrown error ends it
WorkerTrackUncaught(w) ==
  /\ w.pc = "track"
  /\ output' = NoOutput
  /\ UNCHANGED <<env, carriers, requests, shipments, nextId, calls, adapterCalls>>
  /\ \E trackingData \in trackPackage(getCarrier(w.carrierName),
                                      w.trackingNumber) :
       IF ~Truthy(trackingData.success)
       THEN Finish(w)
       ELSE Advance(w, "save", TRUE, trackingData)

\* trackPackage resolves; the worker tests trackingData.success
WorkerTrack(w) ==
  /\ w.pc = "track"
  /\ output' = NoOutput
  /\ UNCHANGED <<env, carriers, requests, shipments, nextId, calls, adapterCalls>>
  /\ \E trackingData \in trackPackage(getCarrier(w.carrierName),
                                      w.trackingNumber) :
       IF ~Truthy(trackingData.success)
       THEN Advance(w, "fail", trackingData.success # "false", NoData)
       ELSE Advance(w, "save", TRUE, trackingData)

\* an upsert into a shipments table without the reference to its request
WorkerSaveUnreferenced(w) ==
  /\ w.pc = "save"
  /\ output' = NoOutput
  /\ UNCHANGED <<env, carriers, requests, nextId, calls, adapterCalls>>
  /\ shipments' = [i \in DOMAIN shipments \cup {w.id} |->
                     IF i = w.id THEN Shipment(w.data) ELSE shipments[i]]
  /\ Advance(w, "complete", w.adapterOk, NoData)

\* prisma.shipment.upsert; the row references its tracking request
WorkerSave(w) ==
  /\ w.pc = "save"
  /\ output' = NoOutput
  /\ UNCHANGED <<env, carriers, requests, nextId, calls, adapterCalls>>
  /\ IF w.id \notin DOMAIN requests
     THEN /\ Advance(w, "fail", w.adapterOk, NoData)
          /\ UNCHANGED shipments
     ELSE /\ shipments' = [i \in DOMAIN shipments \cup {w.id} |->
                             IF i = w.id THEN Shipment(w.data)
                             ELSE shipments[i]]
          /\ Advance(w, "complete", w.adapterOk, NoData)

\* update status to 'completed'
WorkerComplete(w) ==
  /\ w.pc = "complete"
  /\ output' = NoOutput
  /\ UNCHANGED <<env, carriers, shipments, nextId, calls, adapterCalls>>
  /\ IF w.id \notin DOMAIN requests
     THEN /\ Advance(w, "fail", w.adapterOk, NoData)
          /\ UNCHANGED requests
     ELSE /\ requests' = [requests EXCEPT ![w.id].status = "completed"]
          /\ IF w.callbackUrl
             THEN Advance(w, "callback_completed", w.adapterOk, NoData)
             ELSE Finish(w)

\* a catch block that only logs
WorkerFailLogOnly(w) ==
  /\ w.pc = "fail"
  /\ output' = NoOutput
  /\ UNCHANGED <<env, carriers, requests, shipments, nextId, calls, adapterCalls>>
  /\ IF w.id \in DOMAIN requests /\ w.callbackUrl
     THEN Advance(w, "callback_failed", w.adapterOk, NoData)
     ELSE Finish(w)

\* the catch block: update status to 'failed'
WorkerFail(w) ==
  /\ w.pc = "fail"
  /\ output' = NoOutput
  /\ UNCHANGED <<env, carriers, shipments, nextId, calls, adapterCalls>>
  /\ IF w.id \notin DOMAIN requests
     THEN /\ Finish(w)
          /\ UNCHANGED requests
     ELSE /\ requests' = [requests EXCEPT ![w.id].status = "failed"]
          /\ IF w.callbackUrl
             THEN Advance(w, "callback_failed", w.adapterOk, NoData)
             ELSE Finish(w)

\* a callback POST whose failure is not swallowed: the request is put back
\* for another run
WorkerCallbackRetry(w) ==
  /\ w.pc \in {"callback_completed", "callback_failed"}
  /\ Finish(w)
  /\ UNCHANGED <<env, carriers, shipments, nextId, calls, adapterCalls>>
  /\ \E delivered \in BOOLEAN :
       /\ output' = Output("callback", IF delivered THEN 200 ELSE 0, w.id,
                           IF w.pc = "callback_completed" THEN "completed"
                           ELSE "failed")
       /\ IF delivered \/ w.id \notin DOMAIN requests
          THEN UNCHANGED requests
          ELSE requests' = [requests EXCEPT ![w.id].status = "pending"]

\* a callback POST that is attempted again after a failure
WorkerCallbackAgain(w) ==
  /\ w.pc \in {"callback_completed", "callback_failed"}
  /\ \E delivered \in BOOLEAN :
       /\ output' = Output("callback", IF delivered THEN 200 ELSE 0, w.id,
                           IF w.pc = "callback_completed" THEN "completed"
                           ELSE "failed")
       /\ IF delivered THEN Finish(w) ELSE UNCHANGED workers
  /\ UNCHANGED <<env, carriers, requests, shipments, nextId, calls, adapterCalls>>

\* axios.post to the callback URL: delivered, or failed and swallowed
WorkerCallback(w) ==
  /\ w.pc \in {"callback_completed", "callback_failed"}
  /\ Finish(w)
  /\ \E delivered \in BOOLEAN :
       output' = Output("callback", IF delivered THEN 200 ELSE 0, w.id,
                        IF w.pc = "callback_completed" THEN "completed"
                        ELSE "failed")
  /\ UNCHANGED <<env, carriers, requests, shipments, nextId, calls, adapterCalls>>

-----------------------------------------------------------------------------
(* Specifications *)

TrackRoute ==
  \E u \in env.users, tn \in env.numbers, carrier \in CarrierInputs :
    "track" \in env.routes /\ PostTrack(u, tn, carrier)

AddRoute ==
  \E u \in env.users, tn \in env.numbers, brand \in BrandInputs :
    "add" \in env.routes /\ PostAdd(u, tn, brand)

ExternalRoute ==
  \E g \in env.users, userId \in env.userIds, tn \in env.numbers,
     carrier \in {Absent} \cup CarrierInputs, cb \in env.callbackUrls :
    "external" \in env.routes /\ ExternalPostTrack(g, userId, tn, carrier, cb)

AssignRoute ==
  \E g \in env.users, id \in Ids, carrier \in CarrierInputs :
    "assign" \in env.routes /\ ExternalPutCarrier(g, id, carrier)

AssignWrite == \E c \in BagToSet(calls) : ExternalPutCarrierWrite(c)

UpdateRoute ==
  \E u \in env.users, id \in Ids, tn \in env.updateNumbers,
     brand \in {Absent} \cup CarrierInputs :
    "update" \in env.routes /\ PutUpdate(u, id, tn, brand)

DeleteRoute ==
  \E u \in env.users, id \in Ids :
    "delete" \in env.routes /\ DeleteTracking(u, id)

ReadRoute ==
  \E u \in env.users, id \in Ids :
    "read" \in env.routes /\ GetRequest(u, id)

UrlRoute ==
  \E u \in env.users, id \in Ids :
    "url" \in env.routes /\ GetUrl(u, id)

StatusRoute ==
  \E g \in env.users, id \in Ids :
    "status" \in env.routes /\ GetStatus(g, id)

Handlers ==
  \/ TrackRoute
  \/ AddRoute
  \/ ExternalRoute
  \/ AssignRoute
  \/ AssignWrite
  \/ UpdateRoute
  \/ DeleteRoute
  \/ ReadRoute
  \/ UrlRoute
  \/ StatusRoute

\* the worker's steps up to the test of trackingData.success, and its catch
\* block
WorkerSteps ==
  \/ \E w \in BagToSet(workers) : WorkerClaim(w)
  \/ \E w \in BagToSet(workers) : WorkerTrack(w)
  \/ \E w \in BagToSet(workers) : WorkerFail(w)
  \/ \E w \in BagToSet(workers) : WorkerCallback(w)

\* the worker's steps after a truthy trackingData.success
WorkerSuccessSteps ==
  \/ \E w \in BagToSet(workers) : WorkerSave(w)
  \/ \E w \in BagToSet(workers) : WorkerComplete(w)

\* The deployed program: the registry holds USPSCarrier or nothing.  No
\* result of USPSCarrier.trackPackage has a truthy success, so the steps of
\* WorkerSuccessSteps are never enabled and are left out.
Next == Handlers \/ WorkerSteps

Spec == Init /\ [][Next]_vars

\* The same routes and worker with the stub adapter of the end-to-end
\* scenario registered as USPS: its result has success set.
NextStub == Handlers \/ WorkerSteps \/ WorkerSuccessSteps

SpecStub == InitStub /\ [][NextStub]_vars

\* Every worker step is an await on the database, on the carrier call
\* (timeout 10 s) or on the callback POST (timeout 5 s): each returns.  A
\* parked handler continues when its query returns.  Some worker step is
\* taken while one is possible; no order among the workers is assumed.
Fairness == WF_vars(WorkerSteps) /\ WF_vars(AssignWrite)

\* The deployed program under fair scheduling, for the clients of
\* LiveClients: the routes that store a Pending request with or without a
\* worker, overlapping assign-carrier calls, and deletion.
InitLive ==
  \E client \in LiveClients,
     registry \in {EmptyRegistry, RegistryWith("USPSCarrier")} :
    InitWith(client, registry, CarrierTable)

NextLive ==
  \/ AddRoute
  \/ ExternalRoute
  \/ AssignRoute
  \/ AssignWrite
  \/ DeleteRoute
  \/ WorkerSteps

FairSpec == InitLive /\ [][NextLive]_vars /\ Fairness

\* The classifier alone: one input string per behaviour, drawn from
\* ClassifierInputs, classified any number of times.
ClassifierClients ==
  { Client({"classify"}, {"u1"}, {Absent}, {FALSE}, {tn},
           {NoTrackingNumber}, 1) : tn \in ClassifierInputs }

InitClassify ==
  \E client \in ClassifierClients :
    InitWith(client, EmptyRegistry, CarrierTable)

ClassifyRoute ==
  \E tn \in env.numbers : "classify" \in env.routes /\ Classify(tn)

NextClassify == ClassifyRoute

SpecClassify == InitClassify /\ [][NextClassify]_vars

TypeOK ==
  /\ DOMAIN requests \subseteq Ids
  /\ DOMAIN shipments \subseteq DOMAIN requests
  /\ nextId \in 1..(MaxId + 1)
  /\ BagCardinality(calls) <= MaxCalls

-----------------------------------------------------------------------------
(* Claims *)

Terminal == {"completed", "failed"}

WorkersOf(id) == { w \in BagToSet(workers) : w.id = id }

\* C1: the adapter's trackPackage is invoked at most once per request, also
\* when fulfillment is triggered twice for it.
C1_AtMostOneAdapterCall == \A id \in Ids : adapterCalls[id] <= 1

\* C2: no two stored requests have the same (ownerId, trackingNumber,
\* carrier) triple.
C2_UniqueTriples ==
  \A i, j \in DOMAIN requests :
    i # j => \/ requests[i].userId # requests[j].userId
             \/ requests[i].trackingNumber # requests[j].trackingNumber
             \/ requests[i].carrierId # requests[j].carrierId

C3_Matching(u, tn, cid) ==
  { i \in DOMAIN requests :
      /\ requests[i].userId = u
      /\ requests[i].trackingNumber = tn
      /\ requests[i].carrierId = cid }

C3_AnswersDuplicate(matching) ==
  /\ requests' = requests
  /\ shipments' = shipments
  /\ workers' = workers
  /\ nextId' = nextId
  /\ output'.code = 409
  /\ output'.id \in matching
  /\ output'.status = requests[output'.id].status

\* C3: a submit that repeats the owner, tracking number and carrier of a
\* stored request stores nothing, starts no worker and is answered 409 with
\* the id and the current status of a request with that triple.
C3_IdempotentCreation ==
  [][ \A i \in DOMAIN requests :
        LET u == requests[i].userId
            tn == requests[i].trackingNumber
            cid == requests[i].carrierId
            same == C3_Matching(u, tn, cid)
            sameNumber == { j \in DOMAIN requests :
                              /\ requests[j].userId = u
                              /\ requests[j].trackingNumber = tn }
        IN  /\ (/\ output'.kind = "track"
                /\ cid = "USPS"
                /\ isCarrierAvailable("USPS")
                /\ PostTrack(u, tn, "USPS"))
                 => C3_AnswersDuplicate(same)
            /\ \A brand \in {"usps", "UPS"} :
                 (/\ output'.kind = "add"
                  /\ cid = toUpperCase(brand)
                  /\ PostAdd(u, tn, brand))
                   => C3_AnswersDuplicate(same)
            /\ (/\ output'.kind = "external"
                /\ cid = "USPS"
                /\ isCarrierAvailable("USPS")
                /\ \E cb \in BOOLEAN :
                     ExternalPostTrack(u, Absent, tn, "USPS", cb))
                 => C3_AnswersDuplicate(same)
            /\ (/\ output'.kind = "external"
                /\ \E cb \in BOOLEAN :
                     ExternalPostTrack(u, Absent, tn, Absent, cb))
                 => C3_AnswersDuplicate(sameNumber)
    ]_vars

\* C3 witness: a 409 was answered for a stored request.
C3_Witness ==
  /\ output.kind \in {"track", "add", "external"}
  /\ output.code = 409
  /\ output.id \in DOMAIN requests

\* C4: a request has a stored shipment result if and only if its state is
\* Completed.
C4_ResultIffCompleted ==
  \A id \in DOMAIN requests :
    (id \in DOMAIN shipments) <=> (requests[id].status = "completed")

\* C5: a request whose state is Completed or Failed never changes state back
\* to Pending or Processing.
C5_TerminalIsFinal ==
  [][ \A id \in DOMAIN requests \cap DOMAIN requests' :
        requests[id].status \in Terminal
          => requests'[id].status \in Terminal ]_vars

\* C6: a worker whose adapter call succeeded, on a request that still
\* exists, does not take the failure path: it persists the result and the
\* request reaches Completed.
C6_SuccessCompletes ==
  \A w \in BagToSet(workers) :
    (w.adapterOk /\ w.id \in DOMAIN requests)
      => w.pc \notin {"fail", "callback_failed"}

\* C7: an adapter failure never continues on the success path; the worker's
\* catch block sets the request to Failed, stores no result and sends no
\* HTTP response.
C7_AdapterFailureFails ==
  /\ [](\A w \in BagToSet(workers) :
          w.pc \in {"save", "complete", "callback_completed"} => w.adapterOk)
  /\ [][ \A w \in BagToSet(workers) :
           (w.pc = "fail" /\ ~w.adapterOk /\ WorkerFail(w))
             => /\ w.id \in DOMAIN requests
                     => requests'[w.id].status = "failed"
                /\ shipments' = shipments
                /\ ~IsResponse(output') ]_vars

\* C7 witness: a worker whose adapter call failed has set its request to
\* Failed.
C7_Witness ==
  \E w \in BagToSet(workers) :
    /\ w.pc = "callback_failed"
    /\ ~w.adapterOk
    /\ w.id \in DOMAIN requests
    /\ requests[w.id].status = "failed"

C9_CallbackIsolation ==
  [][ /\ \A v \in BagToSet(workers') \ BagToSet(workers) :
           /\ v.pc = "callback_failed"
                => /\ v.id \in DOMAIN requests'
                   /\ requests'[v.id].status = "failed"
           /\ v.pc = "callback_completed"
                => /\ v.id \in DOMAIN requests'
                   /\ requests'[v.id].status = "completed"
      /\ output'.kind = "callback"
           => requests' = requests /\ shipments' = shipments
    ]_vars

\* C9 witness: a callback POST failed and the request is still Failed.
C9_Witness ==
  /\ output.kind = "callback"
  /\ output.code = 0
  /\ output.id \in DOMAIN requests
  /\ requests[output.id].status = "failed"

\* C10: right after the response to a successful submit or assign-carrier,
\* the request is stored, its worker (if one was started) has not yet
\* claimed it and the adapter has not been called for this trigger.
C10_NonBlockingIntake ==
  /\ (IsResponse(output) /\ output.code \in {200, 201}
         /\ output.status = "pending")
        => /\ output.id \in DOMAIN requests
           /\ requests[output.id].status = "pending"
           /\ \E w \in WorkersOf(output.id) : w.pc = "claim"
  /\ (output.kind = "add" /\ output.code = 201)
        => /\ output.id \in DOMAIN requests
           /\ requests[output.id].status = "pending"
           /\ \A w \in WorkersOf(output.id) : w.pc = "claim"
           /\ adapterCalls[output.id] = 0

\* C10 witness: the response was sent and the request is Pending with its
\* worker still to run.
C10_Witness ==
  /\ IsResponse(output)
  /\ output.code = 201
  /\ output.status = "pending"
  /\ output.id \in DOMAIN requests
  /\ requests[output.id].status = "pending"
  /\ adapterCalls[output.id] = 0

\* C11: an assign-carrier call that succeeds acts on a request that is in
\* AwaitingCarrier with no carrier: it sets the carrier, moves the request to
\* Pending and starts one worker; an assign-carrier call on a request whose
\* carrier is set, or with an unavailable carrier, fails and changes nothing.
C11_AssignTransition ==
  [][ output'.kind = "assign" =>
        IF output'.code = 200
        THEN /\ output'.id \in DOMAIN requests
             /\ requests[output'.id].status = "awaiting_carrier"
             /\ requests[output'.id].carrierId = NoCarrier
             /\ requests'[output'.id].carrierId \in CarrierTable
             /\ requests'[output'.id].status = "pending"
             /\ BagCardinality(workers') = BagCardinality(workers) + 1
        ELSE requests' = requests /\ workers' = workers
    ]_vars

\* C12: an external submit without a carrier stores the request in
\* AwaitingCarrier with no carrier and no worker, and while a request is in
\* AwaitingCarrier (no assign-carrier call on it has succeeded) no worker
\* exists for it and the adapter has not been called for it.
C12_DeferredMode ==
  /\ [](\A id \in DOMAIN requests :
          requests[id].status = "awaiting_carrier"
            => WorkersOf(id) = {} /\ adapterCalls[id] = 0)
  /\ [][ \A id \in DOMAIN requests' \ DOMAIN requests :
           (output'.kind = "external" /\ requests'[id].carrierId = NoCarrier)
             => /\ requests'[id].status = "awaiting_carrier"
                /\ workers' = workers ]_vars

\* C12 witness: an external submit without a carrier has just been stored.
C12_Witness ==
  /\ output.kind = "external"
  /\ output.code = 201
  /\ output.id \in DOMAIN requests
  /\ requests[output.id].status = "awaiting_carrier"
  /\ requests[output.id].carrierId = NoCarrier
  /\ WorkersOf(output.id) = {}

\* C13: POST /add with the brand omitted or 'other' and a tracking number
\* of valid length that the classifier does not recognise is answered 400;
\* no request is stored or changed and no worker is started.
C13_StrictMode ==
  [][ output'.kind = "add" =>
        \A u \in env.users, tn \in env.numbers, brand \in {Absent, "other"} :
          (/\ validLength(tn)
           /\ detectCarrierFromTrackingNumber(tn) = NoCarrier
           /\ PostAdd(u, tn, brand))
            => /\ output'.code = 400
               /\ output'.status = "undetermined"
               /\ requests' = requests
               /\ workers' = workers
               /\ nextId' = nextId ]_vars

\* C13 witness: requests are stored and POST /add has just answered 400.
C13_Witness ==
  /\ output.kind = "add"
  /\ output.code = 400
  /\ output.status = "undetermined"
  /\ DOMAIN requests # {}

\* C14: every stored request that is not in AwaitingCarrier has a carrier.
C14_CarrierResolved ==
  \A id \in DOMAIN requests :
    requests[id].status # "awaiting_carrier"
      => requests[id].carrierId # NoCarrier

SameTriple(r, q) ==
  /\ r.userId = q.userId
  /\ r.trackingNumber = q.trackingNumber
  /\ r.carrierId = q.carrierId

\* C15: once a request is Failed no worker is started for it again, and while
\* it exists no request with its owner, tracking number and carrier is
\* created.
C15_FailedIsTerminal ==
  [][ \A id \in DOMAIN requests :
        requests[id].status = "failed"
          => /\ \A w \in BagToSet(workers') :
                  (w.id = id /\ w.pc = "claim")
                    => CopiesIn(w, workers') <= CopiesIn(w, workers)
             /\ id \in DOMAIN requests'
                  => \A new \in DOMAIN requests' \ DOMAIN requests :
                       ~SameTriple(requests'[new], requests'[id])
    ]_vars

C16_Refused ==
  /\ output'.code \in {400, 404}
  /\ output'.code = 400 => output'.status = "validation"
  /\ output'.id = 0
  /\ requests' = requests
  /\ shipments' = shipments
  /\ workers' = workers
  /\ calls' = calls

\* C16: a read, status, tracking-URL, assign-carrier, update or delete call
\* by a principal on a request of another owner is answered not-found (or
\* rejected as malformed before the lookup), returns nothing of the request
\* and changes nothing: a step that is not such a refusal is not a step of
\* one of these calls on another owner's request.
C16_OwnerScoping ==
  [][ \/ C16_Refused
      \/ /\ output'.kind \notin {"read", "url", "status", "delete", "assign",
                                 "update"}
         /\ BagCardinality(calls') <= BagCardinality(calls)
      \/ \A id \in DOMAIN requests :
           \A u \in env.users \ {requests[id].userId} :
             /\ ~(output'.kind = "read" /\ GetRequest(u, id))
             /\ ~(output'.kind = "url" /\ GetUrl(u, id))
             /\ ~(output'.kind = "status" /\ GetStatus(u, id))
             /\ ~(output'.kind = "delete" /\ DeleteTracking(u, id))
             /\ \A carrier \in CarrierInputs :
                  ~(/\ \/ output'.kind = "assign"
                       \/ BagCardinality(calls') > BagCardinality(calls)
                    /\ ExternalPutCarrier(u, id, carrier))
             /\ \A tn \in env.updateNumbers,
                   brand \in {Absent} \cup CarrierInputs :
                  ~(output'.kind = "update" /\ PutUpdate(u, id, tn, brand))
    ]_vars

\* C16 witness: a request of u1 is stored and a call by another principal
\* has just been answered not-found.
C16_Witness ==
  /\ output.kind \in {"read", "url", "status", "assign", "update", "delete"}
  /\ output.code = 404
  /\ requests # << >>
  /\ \A id \in DOMAIN requests : requests[id].userId = "u1"
  /\ DOMAIN requests = Ids

\* C17: a successful delete removes the request and its shipment result in
\* the same step, and a request that was deleted never exists again, nor
\* does a shipment result for it, whatever a worker still in flight for it
\* does afterwards.
C17_DeleteIsPermanent ==
  /\ [](\A id \in Ids :
          (id < nextId /\ id \notin DOMAIN requests)
            => id \notin DOMAIN shipments)
  /\ [][ /\ \A id \in Ids :
              (id < nextId /\ id \notin DOMAIN requests)
                => id \notin DOMAIN requests'
         /\ (output'.kind = "delete" /\ output'.code = 200)
              => /\ output'.id \in DOMAIN requests
                 /\ output'.id \notin DOMAIN requests'
                 /\ output'.id \notin DOMAIN shipments'
                 /\ \A id \in DOMAIN requests \ {output'.id} :
                      id \in DOMAIN requests'
     ]_vars

\* C17 witness: the request was deleted while its worker held the adapter's
\* result; the worker's upsert failed and nothing is stored for the request.
C17_Witness ==
  \E w \in BagToSet(workers) :
    /\ w.pc = "fail"
    /\ w.adapterOk
    /\ w.id \notin DOMAIN requests
    /\ w.id \notin DOMAIN shipments

C18_NothingChanged ==
  /\ requests' = requests
  /\ shipments' = shipments
  /\ workers' = workers
  /\ calls' = calls
  /\ nextId' = nextId
  /\ adapterCalls' = adapterCalls

\* C18: a submit answered 400 or 409 stores no request, changes no request
\* and starts no worker; a tracking number shorter than 8 or longer than 50
\* characters, a carrier outside the enumeration and an unavailable carrier
\* are answered 400: a step answered otherwise is not a submit of such an
\* input.
C18_RejectedChangesNothing ==
  [][ /\ (output'.kind \in {"track", "add", "external"}
            /\ output'.code \in {400, 409})
           => C18_NothingChanged
      /\ (output'.kind \in {"track", "add", "external"}
            /\ output'.code # 400)
           => \A u \in env.users, tn \in env.numbers :
                /\ \A carrier \in CarrierInputs :
                     ~(/\ output'.kind = "track"
                       /\ \/ ~validLength(tn)
                          \/ carrier \notin TrackCarriers
                          \/ ~isCarrierAvailable(carrier)
                       /\ PostTrack(u, tn, carrier))
                /\ \A brand \in BrandInputs :
                     ~(/\ output'.kind = "add"
                       /\ ~validLength(tn)
                       /\ PostAdd(u, tn, brand))
                /\ \A carrier \in {Absent} \cup CarrierInputs :
                     ~(/\ output'.kind = "external"
                       /\ \/ ~validLength(tn)
                          \/ carrier # Absent /\ ~isCarrierAvailable(carrier)
                       /\ \E userId \in env.userIds, cb \in env.callbackUrls :
                            ExternalPostTrack(u, userId, tn, carrier, cb))
    ]_vars

\* C18 witness: a request is in flight with its worker and a duplicate
\* submit has just been answered 409.
C18_Witness ==
  /\ output.kind \in {"track", "add", "external"}
  /\ output.code = 409
  /\ output.id \in DOMAIN requests
  /\ WorkersOf(output.id) # {}

\* the whole string s fits a sequence of character classes
C19_Fits(s, classes) ==
  /\ Len(s) = Len(classes)
  /\ \A k \in 1..Len(s) : s[k] \in classes[k]

C19_Alnum == Digit \cup UpperLetter

C19_Digits(s, lengths) ==
  Len(s) \in lengths /\ C19_Fits(s, Rep(Len(s), Digit))

\* the ordered table of the claim; spaced tells whether UPS also has the
\* pattern 1Z, a whitespace, then alphanumerics and whitespace
C19_Table(s, spaced) ==
  << <<"UPS", \/ C19_Fits(s, <<{"1"}, {"Z"}>> \o Rep(16, C19_Alnum))
              \/ C19_Digits(s, 10..(Len(s) + 10))
              \/ /\ spaced
                 /\ Len(s) >= 4
                 /\ C19_Fits(s, <<{"1"}, {"Z"}, Whitespace>>
                                  \o Rep(Len(s) - 3,
                                         C19_Alnum \cup Whitespace))>>,
     <<"FedEx", C19_Digits(s, {12, 14})>>,
     <<"USPS", \/ C19_Fits(s, Rep(2, UpperLetter) \o Rep(9, Digit)
                                \o Rep(2, UpperLetter))
               \/ C19_Fits(s, Rep(4, Digit) \o <<Whitespace>>
                                \o Rep(4, Digit) \o <<Whitespace>>
                                \o Rep(4, Digit) \o <<Whitespace>>
                                \o Rep(4, Digit))>>,
     <<"DHL", C19_Digits(s, {10, 11})>>,
     <<"Amazon", C19_Fits(s, <<{"T"}, {"B"}, {"A"}>> \o Rep(10, Digit))>> >>

\* the first carrier of the table with a matching pattern, NoCarrier (Unknown)
\* when there is none
C19_First(table) ==
  LET hits == { k \in 1..Len(table) : table[k][2] }
  IN IF hits = {} THEN NoCarrier
     ELSE table[CHOOSE k \in hits : \A j \in hits : k <= j][1]

C21_LongNumericUnknown ==
  output.kind = "classify"
    => \A tn \in env.numbers :
         (Len(tn) > 14 /\ AllIn(tn, 1, Len(tn), Digit))
           => output.status = NoCarrier

C22_Legal ==
  { <<"awaiting_carrier", "pending">>, <<"pending", "processing">>,
    <<"processing", "completed">>, <<"processing", "failed">> }

\* C22: every change of a stored request's state is one of
\* AwaitingCarrier->Pending, Pending->Processing, Processing->Completed,
\* Processing->Failed.
C22_OnlyLegalTransitions ==
  [][ \A id \in DOMAIN requests \cap DOMAIN requests' :
        requests'[id].status # requests[id].status
          => <<requests[id].status, requests'[id].status>> \in C22_Legal
    ]_vars

C23_Resolvable(carrierName) == getCarrier(carrierName) # "none"

\* the adapter is invoked only by a worker whose carrier name resolves, a
\* worker is started only with such a name, a Completed request has had an
\* adapter call, and a submit or assign-carrier answered "unavailable"
\* changes nothing
C23_NeverInvokedNeverCompleted ==
  /\ [](/\ \A w \in BagToSet(workers) : C23_Resolvable(w.carrierName)
        /\ \A id \in DOMAIN requests :
             requests[id].status = "completed" => adapterCalls[id] > 0)
  /\ [][ /\ \A id \in Ids :
              adapterCalls'[id] > adapterCalls[id]
                => \E w \in BagToSet(workers) :
                     /\ w.id = id
                     /\ w.pc = "claim"
                     /\ C23_Resolvable(w.carrierName)
         /\ output'.status = "unavailable"
              => /\ output'.code = 400
                 /\ requests' = requests
                 /\ workers' = workers
     ]_vars

C24_CallbackPc(st) ==
  IF st = "completed" THEN "callback_completed" ELSE "callback_failed"

\* C24: a worker that persists Completed or Failed for a request with a
\* callback URL goes on to its callback POST, and one without a callback URL
\* ends there with no POST; a callback POST is made by a worker that has a
\* callback URL and has just persisted the state the POST reports, it ends
\* that worker whether it is delivered or not, and changes no request.
C24_OneCallbackPerOutcome ==
  /\ [](\A w \in BagToSet(workers) :
          w.pc \in {"callback_completed", "callback_failed"}
            => w.callbackUrl)
  /\ [][ /\ output'.kind = "callback"
              => /\ output'.status \in Terminal
                 /\ \E w \in BagToSet(workers) :
                      /\ w.callbackUrl
                      /\ w.id = output'.id
                      /\ w.pc = C24_CallbackPc(output'.status)
                      /\ workers' = Remove(workers, w)
                 /\ requests' = requests
         /\ \A w \in BagToSet(workers) :
              (/\ w.pc \in {"fail", "complete"}
               /\ CopiesIn(w, workers') < CopiesIn(w, workers)
               /\ w.id \in DOMAIN requests')
                => LET st == IF w.pc = "complete" THEN "completed"
                             ELSE "failed"
                   IN /\ requests'[w.id].status = st
                      /\ output'.kind # "callback"
                      /\ IF w.callbackUrl
                         THEN workers' =
                                Add(Remove(workers, w),
                                    [w EXCEPT !.pc = C24_CallbackPc(st)])
                         ELSE workers' = Remove(workers, w)
     ]_vars

\* C24 witness: the callback POST for a Completed request failed, the
\* worker has ended and the request is still Completed.
C24_Witness ==
  /\ output.kind = "callback"
  /\ output.code = 0
  /\ output.status = "completed"
  /\ output.id \in DOMAIN requests
  /\ requests[output.id].status = "completed"
  /\ WorkersOf(output.id) = {}

\* the carriers row a brand of POST /add names
C25_CarrierOf(brand) ==
  CASE brand = "usps" -> "USPS"
    [] brand = "UPS" -> "UPS"
    [] brand = "FedEx" -> "FedEx"

\* C25: with the carriers table seeded and no duplicate, POST /add with an
\* explicit brand stores a Pending request for that carrier, also when the
\* carrier's service is not available, and starts the worker only if it is.
C25_ExplicitBrand ==
  [][ output'.kind = "add" =>
        \A u \in env.users, tn \in env.numbers,
           brand \in BrandInputs \ {Absent, "other"} :
          (/\ carriers.table = CarrierTable
           /\ validLength(tn)
           /\ C3_Matching(u, tn, C25_CarrierOf(brand)) = {}
           /\ PostAdd(u, tn, brand))
            => /\ output'.code = 201
               /\ output'.id \in DOMAIN requests' \ DOMAIN requests
               /\ requests'[output'.id].status = "pending"
               /\ requests'[output'.id].carrierId = C25_CarrierOf(brand)
               /\ IF isCarrierAvailable(C25_CarrierOf(brand))
                  THEN BagCardinality(workers') = BagCardinality(workers) + 1
                  ELSE workers' = workers
    ]_vars

\* C26: every tracking number the classifier assigns to USPS is accepted by
\* USPSCarrier.validateTrackingNumber.
C26_ClassifierAdapterConsistency ==
  (output.kind = "classify" /\ output.status = "USPS")
    => \A tn \in env.numbers : validateTrackingNumber(tn)

\* C27: the shipment result stored for a request carries that request's
\* current tracking number and carrier.
C27_ResultMatchesIdentity ==
  \A id \in DOMAIN shipments :
    /\ id \in DOMAIN requests
    /\ shipments[id].trackingNumber = requests[id].trackingNumber
    /\ shipments[id].carrier = requests[id].carrierId

\* C28: a request created through external POST /track is stored with an
\* owner under which the caller who created it finds it again.
C28_CreatorCanReach ==
  [][ (output'.kind = "external" /\ output'.code = 201) =>
        \A g \in env.users, userId \in env.userIds, tn \in env.numbers,
           carrier \in {Absent} \cup CarrierInputs, cb \in env.callbackUrls :
          ExternalPostTrack(g, userId, tn, carrier, cb)
            => /\ output'.id \in DOMAIN requests'
               /\ requests'[output'.id].userId = g
    ]_vars

\* C29: an external submit without a carrier stores a new AwaitingCarrier
\* request only if its owner has no stored request with that tracking
\* number, and is otherwise answered 409 with nothing stored; no owner has
\* two AwaitingCarrier requests for the same tracking number.
C29_CarrierlessDuplicateCheck ==
  /\ [][ output'.kind = "external" =>
           \A g \in env.users, userId \in env.userIds, tn \in env.numbers,
              cb \in env.callbackUrls :
             (validLength(tn) /\ ExternalPostTrack(g, userId, tn, Absent, cb))
               => LET owner == IF userId = Absent THEN g ELSE userId
                      sameNumber ==
                        { j \in DOMAIN requests :
                            /\ requests[j].userId = owner
                            /\ requests[j].trackingNumber = tn }
                  IN IF sameNumber = {}
                     THEN /\ output'.code = 201
                          /\ requests'[output'.id].status = "awaiting_carrier"
                     ELSE /\ output'.code = 409
                          /\ requests' = requests
         ]_vars
  /\ [](\A i, j \in DOMAIN requests :
          (/\ i # j
           /\ requests[i].status = "awaiting_carrier"
           /\ requests[j].status = "awaiting_carrier"
           /\ requests[i].userId = requests[j].userId)
            => requests[i].trackingNumber # requests[j].trackingNumber)

\* C30: every request in AwaitingCarrier has no carrier.
C30_AwaitingMeansUnset ==
  \A id \in DOMAIN requests :
    requests[id].status = "awaiting_carrier"
      => requests[id].carrierId = NoCarrier

====
